---- MODULE Spec2Model ----
(***************************************************************************)
(* Model of src/etl_connector.py: the MITRE ATT&CK ETL connector.          *)
(*                                                                         *)
(* One process runs main() once per invocation; the target collection      *)
(* "mitre_attack_raw" lives in the document store and survives from one    *)
(* invocation to the next.  The external collaborators (environment, store *)
(* driver, feed client) are inputs: every call on them picks one of the    *)
(* outcomes the call can have (a value, or an exception).  A store call is *)
(* atomic: it either takes effect in full or raises without effect.        *)
(*                                                                         *)
(* sys.exit raises SystemExit and Ctrl-C raises KeyboardInterrupt; neither *)
(* is an Exception, so the "except Exception" handlers of the stage        *)
(* functions let both pass up to main(), whose finally block runs before   *)
(* the process terminates.                                                 *)
(***************************************************************************)
EXTENDS Integers, Sequences, FiniteSets, TLC

\* ------------------------------------------------------------------ bounds

\* Number of consecutive invocations of the script.
MaxRuns == 2
\* Longest "objects" list the feed returns.
MaxObjs == 2
\* Longest list of sub-collections an API root enumerates.
MaxColls == 2
\* Most unrelated documents the target collection holds before the first run.
MaxPrior == 2

\* --------------------------------------------------------------- constants

\* for attempt in range(max_retries)
max_retries == 3

None == "None"

\* the literal "Enterprise ATT&CK", one character per element
EnterpriseATTACK ==
    << "E", "n", "t", "e", "r", "p", "r", "i", "s", "e", " ", "A", "T", "T", "&", "C", "K" >>

target_types == << "attack-pattern", "intrusion-set", "malware" >>

\* ------------------------------------------------------------------ inputs

\* os.getenv: unset, set to the empty string, or set.
EnvValues == { None, "", "set" }

\* Titles a sub-collection can carry.
TitleEnterprise == EnterpriseATTACK
TitleEnterpriseV == << "v", "9", " " >> \o EnterpriseATTACK \o << " ", "2" >>
TitleMobile == << "M", "o", "b", "i", "l", "e", " ", "A", "T", "T", "&", "C", "K" >>
TitleLower == << "e", "n", "t", "e", "r", "p", "r", "i", "s", "e", " ", "A", "T", "T", "&", "C", "K" >>
Titles == { TitleEnterprise, TitleEnterpriseV, TitleMobile, TitleLower }

\* Elements of a feed response's "objects" list: STIX objects (dicts), one
\* without a "type", and one element that is not a dict at all.
ObjAttackPattern ==
    [ id |-> "attack-pattern--1", type |-> "attack-pattern", name |-> "Phishing",
      description |-> "d", created |-> "2020", modified |-> "2021" ]
ObjIntrusionSet == [ id |-> "intrusion-set--1", type |-> "intrusion-set" ]
ObjMalware == [ id |-> "malware--1", type |-> "malware", name |-> "Emotet" ]
ObjCourseOfAction == [ id |-> "course-of-action--1", type |-> "course-of-action", name |-> "Patch" ]
ObjNoType == [ id |-> "x--1", name |-> "untyped" ]
NotADict == [ nondict |-> "str" ]
FeedObjects ==
    { ObjAttackPattern, ObjIntrusionSet, ObjMalware, ObjCourseOfAction, ObjNoType, NotADict }

\* Sequences over S of length at most n.
SeqsUpTo(S, n) == UNION { [1..k -> S] : k \in 0..n }

\* What get_objects() can return: a falsy envelope, an envelope without an
\* "objects" field, or an envelope with an "objects" list.
Responses ==
    { << >>, [ more |-> FALSE ] } \cup { [ objects |-> s ] : s \in SeqsUpTo(FeedObjects, MaxObjs) }

\* server.api_roots
ApiRootLists == { << >>, << "root-1" >>, << "root-1", "root-2" >> }

\* Server(taxii_url) with server.api_roots: an exception, or the root list
ServerOutcomes ==
    { [ raised |-> TRUE, api_roots |-> << >> ] }
        \cup { [ raised |-> FALSE, api_roots |-> l ] : l \in ApiRootLists }

\* api_root.collections, each collection given by its title
CollectionLists == SeqsUpTo(Titles, MaxColls)

\* Documents written to the target collection by something else.
Unrelated(i) == [ mitre_id |-> "unrelated", object_type |-> "unrelated", ingested_at |-> 0, n |-> i ]
PriorContents == { [ i \in 1..k |-> Unrelated(i) ] : k \in 0..MaxPrior }

\* ------------------------------------------------------------------- state

VARIABLES
    pc,                    \* position of the process in main() and its callees
    run,                   \* invocation number; also the wall clock of the run
    coll,                  \* documents of the target collection, in insertion order
    prior,                 \* the collection's documents when the run started
    mongo_uri, mongo_db,   \* load_environment and main: the two settings read
    conn,                  \* the MongoClient object: "none", "open" or "closed"
    client_bound,          \* 'client' in locals() of main
    attempt,               \* connect_to_taxii_server: loop variable
    api_root,              \* main: API root handle
    collections,           \* get_enterprise_collection: enumerated sub-collections
    enterprise_collection, \* main: the located sub-collection (its title)
    objects,               \* fetch_and_transform_data: response["objects"]
    idx,                   \* fetch_and_transform_data: loop position in objects
    transformed,           \* fetch_and_transform_data: records built so far
    transformed_data,      \* main: result of fetch_and_transform_data
    existing_count,        \* load_to_mongodb: count before the delete
    success,               \* main: result of load_to_mongodb
    exit_code,             \* process exit status, -1 while the process runs
    \* observations of the run, kept for the properties
    opened,                \* MongoClient objects constructed
    closes,                \* client.close() calls
    attempts,              \* Server(...) connection attempts
    sleeps,                \* time.sleep(5) calls
    deletes, inserts,      \* delete_many / insert_many calls issued
    titleLog,              \* titles logged as "   - <title>"
    summary,               \* "none", "printed" or "failed"
    stages,                \* stages entered, in order
    okStages,              \* stages that returned normally
    interrupted,           \* a KeyboardInterrupt was delivered
    fetch_raised,          \* the except clause of fetch_and_transform_data ran
    discarded,             \* records already built when that clause ran
    cause                  \* why the process is terminating

locals == << mongo_uri, mongo_db, client_bound, attempt, api_root, collections,
             enterprise_collection, objects, idx, transformed, transformed_data,
             existing_count, success >>
ghosts == << opened, closes, attempts, sleeps, deletes, inserts, titleLog, summary,
             stages, okStages, interrupted, fetch_raised, discarded, cause >>
vars == << pc, run, coll, prior, conn, exit_code, locals, ghosts >>

\* ----------------------------------------------------------------- helpers

\* dict.get(key, default)
Get(obj, key, default) == IF key \in DOMAIN obj THEN obj[key] ELSE default

\* obj.get exists only on a dict
IsDict(obj) == "nondict" \notin DOMAIN obj

\* Variant of InTargetTypes: keeps every object that carries a type.
InTargetTypesAny(t) == t # None

\* x in target_types
InTargetTypes(t) == \E i \in 1..Len(target_types) : target_types[i] = t

\* "Enterprise ATT&CK" in title  (substring containment on str)
Contains(pat, title) ==
    \E i \in 0..(Len(title) - Len(pat)) : SubSeq(title, i + 1, i + Len(pat)) = pat

\* Variant of FirstMatchFrom: the loop without its break, so the last match wins.
RECURSIVE LastMatchFrom(_, _)
LastMatchFrom(colls, i) ==
    IF i > Len(colls) THEN << >>
    ELSE LET later == LastMatchFrom(colls, i + 1)
         IN  IF later # << >> THEN later
             ELSE IF Contains(EnterpriseATTACK, colls[i]) THEN colls[i]
             ELSE << >>

\* The for/break loop of get_enterprise_collection from position i on:
\* the first collection whose title contains the literal, << >> if none.
RECURSIVE FirstMatchFrom(_, _)
FirstMatchFrom(colls, i) ==
    IF i > Len(colls) THEN << >>
    ELSE IF Contains(EnterpriseATTACK, colls[i]) THEN colls[i]
    ELSE FirstMatchFrom(colls, i + 1)

\* The record built for one retained object.
TransformObj(obj, now) ==
    [ mitre_id |-> Get(obj, "id", None),
      name |-> Get(obj, "name", "Unknown"),
      description |-> Get(obj, "description", ""),
      object_type |-> Get(obj, "type", None),
      created |-> Get(obj, "created", None),
      modified |-> Get(obj, "modified", None),
      labels |-> Get(obj, "labels", << >>),
      external_references |-> Get(obj, "external_references", << >>),
      kill_chain_phases |-> Get(obj, "kill_chain_phases", << >>),
      ingested_at |-> now,
      source |-> "MITRE ATT&CK TAXII Server",
      raw_object |-> obj ]

\* Variant of Falsy: tests "is None" only, so an empty setting passes.
FalsyNoneOnly(v) == v = None

\* `not x` for a value of os.getenv
Falsy(v) == v = None \/ v = ""

\* Main's local variables before any stage has run.
InitLocals ==
    /\ mongo_uri = None /\ mongo_db = None /\ client_bound = FALSE
    /\ attempt = 0 /\ api_root = None /\ collections = << >>
    /\ enterprise_collection = << >> /\ objects = << >> /\ idx = 0
    /\ transformed = << >> /\ transformed_data = << >>
    /\ existing_count = 0 /\ success = FALSE

InitGhosts ==
    /\ opened = 0 /\ closes = 0 /\ attempts = 0 /\ sleeps = 0
    /\ deletes = 0 /\ inserts = 0 /\ titleLog = << >> /\ summary = "none"
    /\ stages = << >> /\ okStages = { } /\ interrupted = FALSE /\ cause = "none"
    /\ fetch_raised = FALSE /\ discarded = 0

Init ==
    /\ pc = "load_environment"
    /\ run = 1
    /\ coll \in PriorContents
    /\ prior = coll
    /\ conn = "none"
    /\ exit_code = -1
    /\ InitLocals
    /\ InitGhosts

\* sys.exit(1), or an exception reaching a handler of main that calls it:
\* control passes to main's finally block with status 1 pending.
SysExit(why) ==
    /\ pc' = "finally"
    /\ exit_code' = 1
    /\ cause' = why

\* ------------------------------------------------------- load_environment

LoadEnvironment ==
    /\ pc = "load_environment"
    /\ stages' = Append(stages, "config")
    /\ \E dotenv \in { "ok", "raise" }, uri \in EnvValues, db \in EnvValues :
         IF dotenv = "raise"
         THEN \* load_dotenv() fails; not caught here: main's "except Exception"
              /\ SysExit("unexpected")
              /\ UNCHANGED << mongo_uri, mongo_db, okStages >>
         ELSE /\ mongo_uri' = uri
              /\ mongo_db' = db
              /\ IF Falsy(uri) \/ Falsy(db)
                 THEN /\ SysExit("config")
                      /\ UNCHANGED okStages
                 ELSE /\ okStages' = okStages \cup { "config" }
                      /\ pc' = "connect_to_mongodb"
                      /\ UNCHANGED << exit_code, cause >>
    /\ UNCHANGED << run, coll, prior, conn, client_bound, attempt, api_root, collections,
                    enterprise_collection, objects, idx, transformed, transformed_data,
                    existing_count, success, opened, closes, attempts, sleeps, deletes,
                    inserts, titleLog, summary, interrupted, fetch_raised, discarded >>

\* ----------------------------------------------------- connect_to_mongodb

\* client = MongoClient(mongo_uri, serverSelectionTimeoutMS=5000)
MongoClientOpen ==
    /\ pc = "connect_to_mongodb"
    /\ stages' = Append(stages, "store")
    /\ \E r \in { "ok", "raise" } :
         IF r = "raise"
         THEN \* the constructor rejects the URI: no client object exists
              /\ SysExit("store")
              /\ UNCHANGED << conn, opened >>
         ELSE /\ conn' = "open"
              /\ opened' = opened + 1
              /\ pc' = "server_info"
              /\ UNCHANGED << exit_code, cause >>
    /\ UNCHANGED << run, coll, prior, locals, closes, attempts, sleeps, deletes, inserts,
                    titleLog, summary, okStages, interrupted, fetch_raised, discarded >>

\* client.server_info(), then return client, db, collection to main
ServerInfo ==
    /\ pc = "server_info"
    /\ \E r \in { "ok", "raise" } :
         IF r = "raise"
         THEN \* sys.exit(1) inside connect_to_mongodb: main's 'client' is never bound
              /\ SysExit("store")
              /\ UNCHANGED << client_bound, okStages >>
         ELSE /\ client_bound' = TRUE
              /\ okStages' = okStages \cup { "store" }
              /\ pc' = "connect_to_taxii_server"
              /\ UNCHANGED << exit_code, cause >>
    /\ UNCHANGED << run, coll, prior, conn, mongo_uri, mongo_db, attempt, api_root,
                    collections, enterprise_collection, objects, idx, transformed,
                    transformed_data, existing_count, success, opened, closes, attempts,
                    sleeps, deletes, inserts, titleLog, summary, stages, interrupted, fetch_raised, discarded >>

\* ------------------------------------------------ connect_to_taxii_server

\* Variant of RetryAllowed: off by one, so the last failure sleeps as well.
RetryAllowedOffByOne(a) == a < max_retries

\* attempt < max_retries - 1
RetryAllowed(a) == a < max_retries - 1

\* One iteration of the for loop up to the return or the except clause.
\* Server(taxii_url) / server.api_roots either raises or yields the root list.
TaxiiAttempt ==
    /\ pc \in { "connect_to_taxii_server", "taxii_attempt" }
    /\ attempt < max_retries
    /\ attempts' = attempts + 1
    /\ stages' = IF pc = "connect_to_taxii_server" THEN Append(stages, "feed") ELSE stages
    /\ \E r \in ServerOutcomes :
         IF r.raised \/ r.api_roots = << >>
         THEN IF RetryAllowed(attempt)
              THEN /\ pc' = "taxii_sleep"
                   /\ UNCHANGED << api_root, okStages, exit_code, cause >>
              ELSE /\ SysExit("feed")
                   /\ UNCHANGED << api_root, okStages >>
         ELSE /\ api_root' = r.api_roots[1]
              /\ okStages' = okStages \cup { "feed" }
              /\ pc' = "get_enterprise_collection"
              /\ UNCHANGED << exit_code, cause >>
    /\ UNCHANGED << run, coll, prior, conn, mongo_uri, mongo_db, client_bound, attempt,
                    collections, enterprise_collection, objects, idx, transformed,
                    transformed_data, existing_count, success, opened, closes, sleeps,
                    deletes, inserts, titleLog, summary, interrupted, fetch_raised, discarded >>

\* time.sleep(5), then the next iteration
TaxiiSleep ==
    /\ pc = "taxii_sleep"
    /\ sleeps' = sleeps + 1
    /\ attempt' = attempt + 1
    /\ pc' = "taxii_attempt"
    /\ UNCHANGED << run, coll, prior, conn, exit_code, mongo_uri, mongo_db, client_bound,
                    api_root, collections, enterprise_collection, objects, idx,
                    transformed, transformed_data, existing_count, success, opened,
                    closes, attempts, deletes, inserts, titleLog, summary, stages,
                    okStages, interrupted, cause, fetch_raised, discarded >>

\* ---------------------------------------------- get_enterprise_collection

\* collections = api_root.collections, and the emptiness test
GetCollections ==
    /\ pc = "get_enterprise_collection"
    /\ stages' = Append(stages, "locate")
    /\ \E raised \in BOOLEAN, l \in CollectionLists :
         IF raised \/ l = << >>
         THEN \* "except Exception" of get_enterprise_collection: sys.exit(1)
              /\ SysExit("locate")
              /\ UNCHANGED collections
         ELSE /\ collections' = l
              /\ pc' = "scan_collections"
              /\ UNCHANGED << exit_code, cause >>
    /\ UNCHANGED << run, coll, prior, conn, mongo_uri, mongo_db, client_bound, attempt,
                    api_root, enterprise_collection, objects, idx, transformed,
                    transformed_data, existing_count, success, opened, closes, attempts,
                    sleeps, deletes, inserts, titleLog, summary, okStages, interrupted, fetch_raised, discarded >>

\* The search loop; on no match the loop that logs the available titles.
ScanCollections ==
    /\ pc = "scan_collections"
    /\ LET found == FirstMatchFrom(collections, 1)
       IN  IF found = << >>
           THEN /\ titleLog' = titleLog \o collections
                /\ SysExit("locate")
                /\ UNCHANGED << enterprise_collection, collections, okStages >>
           ELSE /\ enterprise_collection' = found
                /\ collections' = << >>
                /\ okStages' = okStages \cup { "locate" }
                /\ pc' = "fetch_and_transform_data"
                /\ UNCHANGED << titleLog, exit_code, cause >>
    /\ UNCHANGED << run, coll, prior, conn, mongo_uri, mongo_db, client_bound, attempt,
                    api_root, objects, idx, transformed, transformed_data, existing_count,
                    success, opened, closes, attempts, sleeps, deletes, inserts, summary,
                    stages, interrupted, fetch_raised, discarded >>

\* ----------------------------------------------- fetch_and_transform_data

\* response = enterprise_collection.get_objects() and the envelope test
GetObjects ==
    /\ pc = "fetch_and_transform_data"
    /\ stages' = Append(stages, "fetch")
    /\ \E raised \in BOOLEAN, response \in Responses :
         IF raised \/ response = << >> \/ "objects" \notin DOMAIN response
         THEN \* return [], from the except clause or from the envelope test
              /\ transformed_data' = << >>
              /\ fetch_raised' = raised
              /\ okStages' = okStages \cup { "fetch" }
              /\ pc' = "load_to_mongodb"
              /\ UNCHANGED << objects, idx, transformed >>
         ELSE /\ objects' = response.objects
              /\ idx' = 1
              /\ transformed' = << >>
              /\ pc' = "transform"
              /\ UNCHANGED << transformed_data, okStages, fetch_raised >>
    /\ UNCHANGED discarded
    /\ UNCHANGED << run, coll, prior, conn, exit_code, mongo_uri, mongo_db, client_bound,
                    attempt, api_root, collections, enterprise_collection, existing_count,
                    success, opened, closes, attempts, sleeps, deletes, inserts, titleLog,
                    summary, interrupted, cause >>

\* Variant of TransformStep: the except clause returns the partial list.
TransformStepPartial ==
    /\ pc = "transform"
    /\ idx <= Len(objects)
    /\ LET obj == objects[idx]
       IN  IF ~IsDict(obj)
           THEN /\ transformed_data' = transformed
                /\ fetch_raised' = TRUE
                /\ discarded' = Len(transformed)
                /\ okStages' = okStages \cup { "fetch" }
                /\ pc' = "load_to_mongodb"
                /\ objects' = << >>
                /\ idx' = 0
                /\ transformed' = << >>
           ELSE /\ transformed' = IF InTargetTypes(Get(obj, "type", None))
                                  THEN Append(transformed, TransformObj(obj, run))
                                  ELSE transformed
                /\ idx' = idx + 1
                /\ UNCHANGED << transformed_data, okStages, pc, objects, fetch_raised,
                                discarded >>
    /\ UNCHANGED << run, coll, prior, conn, exit_code, mongo_uri, mongo_db, client_bound,
                    attempt, api_root, collections, enterprise_collection, existing_count,
                    success, opened, closes, attempts, sleeps, deletes, inserts, titleLog,
                    summary, stages, interrupted, cause >>

\* One iteration of "for obj in objects".  obj.get on an element that is not
\* a dict raises; the except clause returns [] whatever was built so far.
TransformStep ==
    /\ pc = "transform"
    /\ idx <= Len(objects)
    /\ LET obj == objects[idx]
       IN  IF ~IsDict(obj)
           THEN /\ transformed_data' = << >>
                /\ fetch_raised' = TRUE
                /\ discarded' = Len(transformed)
                /\ okStages' = okStages \cup { "fetch" }
                /\ pc' = "load_to_mongodb"
                /\ objects' = << >>
                /\ idx' = 0
                /\ transformed' = << >>
           ELSE /\ transformed' = IF InTargetTypes(Get(obj, "type", None))
                                  THEN Append(transformed, TransformObj(obj, run))
                                  ELSE transformed
                /\ idx' = idx + 1
                /\ UNCHANGED << transformed_data, okStages, pc, objects, fetch_raised,
                                discarded >>
    /\ UNCHANGED << run, coll, prior, conn, exit_code, mongo_uri, mongo_db, client_bound,
                    attempt, api_root, collections, enterprise_collection, existing_count,
                    success, opened, closes, attempts, sleeps, deletes, inserts, titleLog,
                    summary, stages, interrupted, cause >>

\* After the loop: the type breakdown is logged and transformed is returned.
TransformReturn ==
    /\ pc = "transform"
    /\ idx > Len(objects)
    /\ transformed_data' = transformed
    /\ okStages' = okStages \cup { "fetch" }
    /\ pc' = "load_to_mongodb"
    /\ objects' = << >>
    /\ idx' = 0
    /\ transformed' = << >>
    /\ UNCHANGED << run, coll, prior, conn, exit_code, mongo_uri, mongo_db, client_bound,
                    attempt, api_root, collections, enterprise_collection, existing_count,
                    success, opened, closes, attempts, sleeps, deletes, inserts, titleLog,
                    summary, stages, interrupted, cause, fetch_raised, discarded >>

\* -------------------------------------------------------- load_to_mongodb

\* load_to_mongodb returns r to main
LoadReturns(r) ==
    /\ success' = r
    /\ okStages' = IF r THEN okStages \cup { "load" } ELSE okStages
    /\ pc' = "main_check"

\* Variant of LoadEntry: the emptiness guard is missing.
LoadEntryNoGuard ==
    /\ pc = "load_to_mongodb"
    /\ stages' = Append(stages, "load")
    /\ pc' = "count_documents"
    /\ UNCHANGED << success, okStages >>
    /\ UNCHANGED << run, coll, prior, conn, exit_code, mongo_uri, mongo_db, client_bound,
                    attempt, api_root, collections, enterprise_collection, objects, idx,
                    transformed, transformed_data, existing_count, opened, closes,
                    attempts, sleeps, deletes, inserts, titleLog, summary, interrupted,
                    cause, fetch_raised, discarded >>

\* if not transformed_data: return False
LoadEntry ==
    /\ pc = "load_to_mongodb"
    /\ stages' = Append(stages, "load")
    /\ IF transformed_data = << >>
       THEN LoadReturns(FALSE)
       ELSE /\ pc' = "count_documents"
            /\ UNCHANGED << success, okStages >>
    /\ UNCHANGED << run, coll, prior, conn, exit_code, mongo_uri, mongo_db, client_bound,
                    attempt, api_root, collections, enterprise_collection, objects, idx,
                    transformed, transformed_data, existing_count, opened, closes,
                    attempts, sleeps, deletes, inserts, titleLog, summary, interrupted,
                    cause, fetch_raised, discarded >>

\* Variant of CountDocuments: append mode, the clearing branch is never taken.
CountDocumentsAppend ==
    /\ pc = "count_documents"
    /\ \E raised \in BOOLEAN :
         IF raised
         THEN /\ LoadReturns(FALSE)
              /\ UNCHANGED existing_count
         ELSE /\ existing_count' = Len(coll)
              /\ pc' = "insert_many"
              /\ UNCHANGED << success, okStages >>
    /\ UNCHANGED << run, coll, prior, conn, exit_code, mongo_uri, mongo_db, client_bound,
                    attempt, api_root, collections, enterprise_collection, objects, idx,
                    transformed, transformed_data, opened, closes, attempts, sleeps,
                    deletes, inserts, titleLog, summary, stages, interrupted, cause, fetch_raised, discarded >>

\* existing_count = collection.count_documents({})
CountDocuments ==
    /\ pc = "count_documents"
    /\ \E raised \in BOOLEAN :
         IF raised
         THEN /\ LoadReturns(FALSE)
              /\ UNCHANGED existing_count
         ELSE /\ existing_count' = Len(coll)
              /\ pc' = IF Len(coll) > 0 THEN "delete_many" ELSE "insert_many"
              /\ UNCHANGED << success, okStages >>
    /\ UNCHANGED << run, coll, prior, conn, exit_code, mongo_uri, mongo_db, client_bound,
                    attempt, api_root, collections, enterprise_collection, objects, idx,
                    transformed, transformed_data, opened, closes, attempts, sleeps,
                    deletes, inserts, titleLog, summary, stages, interrupted, cause, fetch_raised, discarded >>

\* Variant of DeleteMany: delete_one({}) removes a single document.
DeleteOne ==
    /\ pc = "delete_many"
    /\ deletes' = deletes + 1
    /\ \E raised \in BOOLEAN :
         IF raised
         THEN /\ LoadReturns(FALSE)
              /\ UNCHANGED coll
         ELSE /\ coll' = Tail(coll)
              /\ pc' = "insert_many"
              /\ UNCHANGED << success, okStages >>
    /\ UNCHANGED << run, prior, conn, exit_code, mongo_uri, mongo_db, client_bound,
                    attempt, api_root, collections, enterprise_collection, objects, idx,
                    transformed, transformed_data, existing_count, opened, closes,
                    attempts, sleeps, inserts, titleLog, summary, stages, interrupted,
                    cause, fetch_raised, discarded >>

\* collection.delete_many({})
DeleteMany ==
    /\ pc = "delete_many"
    /\ deletes' = deletes + 1
    /\ \E raised \in BOOLEAN :
         IF raised
         THEN /\ LoadReturns(FALSE)
              /\ UNCHANGED coll
         ELSE /\ coll' = << >>
              /\ pc' = "insert_many"
              /\ UNCHANGED << success, okStages >>
    /\ UNCHANGED << run, prior, conn, exit_code, mongo_uri, mongo_db, client_bound,
                    attempt, api_root, collections, enterprise_collection, objects, idx,
                    transformed, transformed_data, existing_count, opened, closes,
                    attempts, sleeps, inserts, titleLog, summary, stages, interrupted,
                    cause, fetch_raised, discarded >>

\* result = collection.insert_many(transformed_data): the driver returns one
\* inserted id per document, so result.inserted_ids is non-empty here.
InsertMany ==
    /\ pc = "insert_many"
    /\ inserts' = inserts + 1
    /\ \E raised \in BOOLEAN :
         IF raised
         THEN /\ LoadReturns(FALSE)
              /\ UNCHANGED coll
         ELSE /\ coll' = coll \o transformed_data
              /\ pc' = "verify_count"
              /\ UNCHANGED << success, okStages >>
    /\ UNCHANGED << run, prior, conn, exit_code, mongo_uri, mongo_db, client_bound,
                    attempt, api_root, collections, enterprise_collection, objects, idx,
                    transformed, transformed_data, existing_count, opened, closes,
                    attempts, sleeps, deletes, titleLog, summary, stages, interrupted,
                    cause, fetch_raised, discarded >>

\* final_count = collection.count_documents({}), inside the same try
VerifyCount ==
    /\ pc = "verify_count"
    /\ \E raised \in BOOLEAN : LoadReturns(~raised)
    /\ UNCHANGED << run, coll, prior, conn, exit_code, mongo_uri, mongo_db, client_bound,
                    attempt, api_root, collections, enterprise_collection, objects, idx,
                    transformed, transformed_data, existing_count, opened, closes,
                    attempts, sleeps, deletes, inserts, titleLog, summary, stages,
                    interrupted, cause, fetch_raised, discarded >>

\* ------------------------------------------------------------------- main

\* Variant of MainCheck: the result of the load stage is not tested.
MainCheckIgnoresSuccess ==
    /\ pc = "main_check"
    /\ pc' = "print_summary"
    /\ UNCHANGED << exit_code, cause >>
    /\ UNCHANGED << run, coll, prior, conn, locals, opened, closes, attempts, sleeps,
                    deletes, inserts, titleLog, summary, stages, okStages, interrupted, fetch_raised, discarded >>

\* if success: ... else: sys.exit(1)
MainCheck ==
    /\ pc = "main_check"
    /\ IF success
       THEN /\ pc' = "print_summary"
            /\ UNCHANGED << exit_code, cause >>
       ELSE SysExit("load")
    /\ UNCHANGED << run, coll, prior, conn, locals, opened, closes, attempts, sleeps,
                    deletes, inserts, titleLog, summary, stages, okStages, interrupted, fetch_raised, discarded >>

\* print_summary(collection): any exception is logged as a warning
PrintSummary ==
    /\ pc = "print_summary"
    /\ \E raised \in BOOLEAN : summary' = IF raised THEN "failed" ELSE "printed"
    /\ pc' = "main_end"
    /\ UNCHANGED << run, coll, prior, conn, exit_code, locals, opened, closes, attempts,
                    sleeps, deletes, inserts, titleLog, stages, okStages, interrupted,
                    cause, fetch_raised, discarded >>

\* The try block ends; main returns and the interpreter exits with status 0.
MainEnd ==
    /\ pc = "main_end"
    /\ pc' = "finally"
    /\ exit_code' = 0
    /\ cause' = "completed"
    /\ UNCHANGED << run, coll, prior, conn, locals, opened, closes, attempts, sleeps,
                    deletes, inserts, titleLog, summary, stages, okStages, interrupted, fetch_raised, discarded >>

\* Positions inside main's try block.
TryPcs ==
    { "load_environment", "connect_to_mongodb", "server_info", "connect_to_taxii_server",
      "taxii_attempt", "taxii_sleep", "get_enterprise_collection", "scan_collections",
      "fetch_and_transform_data", "transform", "load_to_mongodb", "count_documents",
      "delete_many", "insert_many", "verify_count", "main_check", "print_summary",
      "main_end" }

\* except KeyboardInterrupt: sys.exit(1)
KeyboardInterrupt ==
    /\ pc \in TryPcs
    /\ interrupted' = TRUE
    /\ SysExit("interrupt")
    /\ UNCHANGED << run, coll, prior, conn, locals, opened, closes, attempts, sleeps,
                    deletes, inserts, titleLog, summary, stages, okStages, fetch_raised, discarded >>

\* finally: if 'client' in locals(): client.close(); then the process ends
Finally ==
    /\ pc = "finally"
    /\ IF client_bound
       THEN /\ conn' = "closed"
            /\ closes' = closes + 1
       ELSE UNCHANGED << conn, closes >>
    /\ pc' = "exited"
    /\ UNCHANGED << run, coll, prior, exit_code, locals, opened, attempts, sleeps, deletes,
                    inserts, titleLog, summary, stages, okStages, interrupted, cause, fetch_raised, discarded >>

\* The script is invoked again; only the store's collection carries over.
StartRun ==
    /\ pc = "exited"
    /\ run < MaxRuns
    /\ run' = run + 1
    /\ pc' = "load_environment"
    /\ prior' = coll
    /\ conn' = "none"
    /\ exit_code' = -1
    /\ mongo_uri' = None /\ mongo_db' = None /\ client_bound' = FALSE
    /\ attempt' = 0 /\ api_root' = None /\ collections' = << >>
    /\ enterprise_collection' = << >> /\ objects' = << >> /\ idx' = 0
    /\ transformed' = << >> /\ transformed_data' = << >>
    /\ existing_count' = 0 /\ success' = FALSE
    /\ opened' = 0 /\ closes' = 0 /\ attempts' = 0 /\ sleeps' = 0
    /\ deletes' = 0 /\ inserts' = 0 /\ titleLog' = << >> /\ summary' = "none"
    /\ stages' = << >> /\ okStages' = { } /\ interrupted' = FALSE /\ cause' = "none"
    /\ fetch_raised' = FALSE /\ discarded' = 0
    /\ UNCHANGED coll

Next ==
    \/ LoadEnvironment
    \/ MongoClientOpen
    \/ ServerInfo
    \/ TaxiiAttempt
    \/ TaxiiSleep
    \/ GetCollections
    \/ ScanCollections
    \/ GetObjects
    \/ TransformStep
    \/ TransformReturn
    \/ LoadEntry
    \/ CountDocuments
    \/ DeleteMany
    \/ InsertMany
    \/ VerifyCount
    \/ MainCheck
    \/ PrintSummary
    \/ MainEnd
    \/ KeyboardInterrupt
    \/ Finally
    \/ StartRun

Spec == Init /\ [][Next]_vars

\* -------------------------------------------------------------- properties

Range(s) == { s[i] : i \in 1..Len(s) }

IsPrefix(s, t) == Len(s) <= Len(t) /\ SubSeq(t, 1, Len(s)) = s

Terminating == pc \in { "finally", "exited" }

Allowlist == { "attack-pattern", "intrusion-set", "malware" }

Allowed(o) == "type" \in DOMAIN o /\ o.type \in Allowlist

KeptObjects(objs) == SelectSeq(objs, Allowed)

\* recs holds one record per allowlisted element of objs, in order, and nothing else.
OneRecordPerAllowed(objs, recs) ==
    /\ Len(recs) = Len(KeptObjects(objs))
    /\ \A i \in 1..Len(recs) :
         /\ recs[i].raw_object = KeptObjects(objs)[i]
         /\ recs[i].object_type = KeptObjects(objs)[i].type
         /\ recs[i].object_type \in Allowlist
    /\ Len(recs) <= Len(objs)
    /\ (Len(recs) = Len(objs)) <=> (\A i \in 1..Len(objs) : Allowed(objs[i]))

\* The transform loop hands its result to main.
TransformReturns == pc = "transform" /\ pc' = "load_to_mongodb"

HasLiteral(title) == Contains(EnterpriseATTACK, title)

\* C1: load is full-replace.  Once load_to_mongodb has reported success the
\* target collection holds exactly the transformed records of this run: same
\* documents, same count, no document of the prior contents left, so the count
\* after a second successful run is that run's count and not the sum.
C1_FullReplace ==
    success =>
        /\ transformed_data # << >>
        /\ coll = transformed_data
        /\ Len(coll) = Len(transformed_data)
        /\ \A i \in 1..Len(coll) : coll[i] \notin Range(prior)
        /\ prior # << >> => Len(coll) # Len(prior) + Len(transformed_data)

\* C1 witness: the second of two successful runs that fetched the same two
\* objects has ended; the collection holds 2 documents, not 4.
C1_Witness ==
    /\ run = 2 /\ pc = "exited" /\ exit_code = 0 /\ success
    /\ Len(prior) = 2 /\ prior[1].ingested_at = 1 /\ prior[2].ingested_at = 1
    /\ Len(coll) = 2
    /\ \A i \in 1..2 : coll[i].raw_object = prior[i].raw_object /\ coll[i].ingested_at = 2

\* C2: on every exit path of a run on which the store client object was
\* constructed, the store connection has been closed exactly once when the
\* process has terminated.
C2_ClosedExactlyOnce == (pc = "exited" /\ opened > 0) => closes = 1

\* C3: the feed connector makes at most 3 attempts and sleeps once between
\* consecutive attempts only; it stops at the first attempt that succeeds with
\* an API root; when all 3 attempts fail the process exits non-zero after
\* exactly 2 sleeps.
C3_RetryBudget ==
    /\ attempts <= 3
    /\ sleeps <= 2
    /\ attempts > 0 => sleeps \in { attempts - 1, attempts }
    /\ (attempts > 0 /\ sleeps = attempts) => (pc = "taxii_attempt" \/ interrupted)
    /\ pc = "taxii_sleep" => sleeps = attempts - 1
    /\ "feed" \in okStages => (sleeps = attempts - 1 /\ api_root # None)
    /\ cause = "feed" =>
         (attempts = 3 /\ sleeps = 2 /\ exit_code = 1 /\ "feed" \notin okStages)

\* C3 witness: the process has exited after three failed attempts.
C3_Witness ==
    pc = "exited" /\ cause = "feed" /\ attempts = 3 /\ sleeps = 2 /\ exit_code = 1

\* C4 as stated: for every fetched object list the transform step returns one
\* record per object whose type is allowlisted and none for any other, with
\* count <= input count and equality iff every object is allowlisted.
C4_Original == [][TransformReturns => OneRecordPerAllowed(objects, transformed_data')]_vars

\* C4 amended: the same for every fetched list whose elements are all
\* well-formed objects; a list with an element that is no object yields no
\* record at all.  Every document in the collection that a run wrote has an
\* allowlisted object_type.
C4_Amended ==
    /\ [][TransformReturns =>
             IF \A i \in 1..Len(objects) : IsDict(objects[i])
             THEN OneRecordPerAllowed(objects, transformed_data')
             ELSE transformed_data' = << >>]_vars
    /\ [](\A i \in 1..Len(coll) :
             coll[i].object_type \in Allowlist \/ coll[i].object_type = "unrelated")

\* C4 witness: the loop has run over a malware object and a course-of-action
\* object and built one record.
C4_Witness ==
    /\ pc = "transform" /\ idx = 3
    /\ objects = << ObjMalware, ObjCourseOfAction >>
    /\ Len(transformed) = 1 /\ transformed[1].object_type = "malware"

\* C5: in a run that is not interrupted the exit status is 0 exactly when the
\* configuration, store, feed, locate and load stages all succeeded; a failed
\* summary leaves the status at 0.
C5_ExitStatus ==
    (pc = "exited" /\ ~interrupted) =>
        /\ exit_code \in { 0, 1 }
        /\ exit_code = 0 <=>
             (success /\ { "config", "store", "feed", "locate", "load" } \subseteq okStages)
        /\ summary = "failed" => exit_code = 0

\* C5 witness: the summary failed after a successful load and the process
\* exited with status 0.
C5_Witness == pc = "exited" /\ ~interrupted /\ summary = "failed" /\ exit_code = 0

StageOrder == << "config", "store", "feed", "locate", "fetch", "load" >>

\* C6: stages are entered in the fixed order, each only after every earlier
\* stage returned normally.  With a missing or empty setting no store client
\* is constructed; with a failed store stage no feed attempt is made; the
\* process exits non-zero in both cases.
C6_StageGating ==
    /\ IsPrefix(stages, StageOrder)
    /\ \A i \in 2..Len(stages) : StageOrder[i - 1] \in okStages
    /\ ("config" \in Range(stages) /\ (mongo_uri \in { None, "" } \/ mongo_db \in { None, "" })) =>
         (opened = 0 /\ "store" \notin Range(stages) /\ Terminating /\ exit_code = 1)
    /\ ("store" \in Range(stages) /\ "store" \notin okStages /\ Terminating) =>
         (attempts = 0 /\ "feed" \notin Range(stages) /\ exit_code = 1)

\* C6 witness: the store probe failed on a constructed client and the
\* process exited without a feed attempt.
C6_Witness ==
    pc = "exited" /\ cause = "store" /\ opened = 1 /\ attempts = 0 /\ exit_code = 1

\* C7: when fetch/transform returned no record, the load stage issues no
\* delete and no insert, the collection keeps its prior contents, load does
\* not report success, no summary is printed and the exit status is non-zero.
C7_EmptyFetchLeavesStore ==
    ("fetch" \in okStages /\ transformed_data = << >>) =>
        /\ deletes = 0 /\ inserts = 0
        /\ coll = prior
        /\ ~success /\ "load" \notin okStages
        /\ summary = "none"
        /\ pc \notin { "count_documents", "delete_many", "insert_many", "verify_count",
                       "print_summary", "main_end" }
        /\ pc = "exited" => exit_code = 1

\* C7 witness: the feed answered without usable objects, load reported
\* failure and the process exited, two prior documents untouched.
C7_Witness ==
    /\ pc = "exited" /\ cause = "load" /\ ~fetch_raised
    /\ transformed_data = << >> /\ Len(prior) = 2 /\ coll = prior /\ exit_code = 1

\* C8: the locator returns the earliest enumerated collection whose title
\* contains "Enterprise ATT&CK"; with no such title it logs every available
\* title once, in order, and exits non-zero; an empty or failing enumeration
\* exits non-zero too.
C8_FirstMatch ==
    /\ [][(pc = "scan_collections" /\ ~interrupted') =>
             IF \E i \in 1..Len(collections) : HasLiteral(collections[i])
             THEN /\ \E i \in 1..Len(collections) :
                       /\ HasLiteral(collections[i])
                       /\ \A j \in 1..(i - 1) : ~HasLiteral(collections[j])
                       /\ enterprise_collection' = collections[i]
                  /\ pc' = "fetch_and_transform_data"
                  /\ titleLog' = << >>
             ELSE /\ pc' = "finally"
                  /\ exit_code' = 1
                  /\ Len(titleLog') = Len(collections)
                  /\ \A i \in 1..Len(collections) : titleLog'[i] = collections[i]]_vars
    /\ [](pc = "scan_collections" => collections # << >>)
    /\ [](cause = "locate" =>
             (exit_code = 1 /\ enterprise_collection = << >> /\ "locate" \notin okStages))

\* C8 witness: no title matched; both titles were logged and the process exited.
C8_Witness ==
    /\ pc = "exited" /\ cause = "locate" /\ exit_code = 1
    /\ collections = << TitleMobile, TitleLower >>
    /\ titleLog = << TitleMobile, TitleLower >>

\* C9: an exception while fetching or transforming makes the step return the
\* empty record set, whatever was built before, without terminating the
\* process; the run goes on to the load stage, which fails without touching
\* the collection, and the process exits non-zero.
C9_SoftFail ==
    fetch_raised =>
        /\ transformed_data = << >>
        /\ "fetch" \in okStages
        /\ cause \in { "none", "load", "interrupt" }
        /\ deletes = 0 /\ inserts = 0 /\ coll = prior
        /\ pc = "exited" => exit_code = 1
        /\ (pc = "exited" /\ ~interrupted) =>
             (cause = "load" /\ "load" \in Range(stages) /\ ~success)

\* C9 witness: the exception came after one record had been built; load
\* failed, the prior documents are untouched and the process exited.
C9_Witness ==
    /\ pc = "exited" /\ fetch_raised /\ discarded = 1 /\ cause = "load"
    /\ prior # << >> /\ coll = prior /\ exit_code = 1

\* C10: a load issues at most one delete and one insert, the delete only for
\* a non-empty record set and before the insert; when the insert raises, load
\* reports failure and the collection is left empty; the process then exits
\* non-zero; the collection is always its prior contents, empty, or exactly
\* the new record set.
C10_DeleteThenInsert ==
    /\ [](/\ deletes <= 1 /\ inserts <= 1
          /\ (deletes + inserts > 0) => transformed_data # << >>
          /\ pc = "delete_many" => (deletes = 0 /\ inserts = 0)
          /\ coll = prior \/ coll = << >> \/ coll = transformed_data
          /\ (pc = "exited" /\ ~success) => exit_code = 1)
    /\ [][(pc = "insert_many" /\ pc' = "main_check") =>
             (/\ ~success'
              /\ coll' = << >>
              /\ existing_count > 0 => (deletes = 1 /\ prior # << >>))]_vars
    /\ [][deletes' > deletes => (pc = "delete_many" /\ inserts = 0 /\ Len(coll) > 0)]_vars

\* C10 witness: two prior documents were deleted, the insert raised, and the
\* process exited non-zero with the collection empty.
C10_Witness ==
    /\ pc = "exited" /\ ~interrupted /\ deletes = 1 /\ inserts = 1 /\ ~success
    /\ Len(prior) = 2 /\ coll = << >> /\ exit_code = 1

====
